---------------------------- MODULE Spec2Model ----------------------------
(***************************************************************************)
(* A model of src/lib.rs: the CompactSize codec and the four composed      *)
(* structures (OutPoint, Script, TransactionInput, BitcoinTransaction)     *)
(* with their to_bytes / from_bytes pairs, and the hex (de)serialization   *)
(* of Txid.                                                                *)
(*                                                                         *)
(* Numbers.  TLC's integers are 32 bits wide, the program's are u8, u32,   *)
(* u64 and usize.  A u8 and a u16 are integers; a u32 is a pair and a u64  *)
(* (and a usize, on a 64-bit target) a 4-tuple of 16-bit limbs, least      *)
(* significant limb first.  Casts, to_le_bytes and from_le_bytes are       *)
(* computed on the limbs.                                                  *)
(*                                                                         *)
(* A decoder's outcome is Ok(value, consumed), Err(kind) or a panic        *)
(* (the line that aborts): Rust aborts the call on an out-of-range slice   *)
(* and, when the build has overflow checks on, on an integer overflow.     *)
(***************************************************************************)
EXTENDS Integers, Sequences, FiniteSets

VARIABLES
    overflow_checks, \* the build profile: TRUE (debug) panics on overflow, FALSE (release) wraps
    last,            \* the operation called last
    value,           \* the value handed to the last encoder: [ty, v]
    wire,            \* what that encoder returned
    input,           \* the buffer (or string) handed to the last decoder
    result           \* what that decoder returned

vars == <<overflow_checks, last, value, wire, input, result>>

-----------------------------------------------------------------------------
(* Bounds of the model. *)

MaxInputs == 2      \* longest input list of a transaction that is encoded
MaxTail == 2        \* most bytes appended after a complete encoding
MaxCount == 3       \* largest small input count written into a crafted transaction

-----------------------------------------------------------------------------
(* Integers of the program. *)

U16_to_le_bytes(w) == <<w % 256, w \div 256>>
U32_to_le_bytes(x) == U16_to_le_bytes(x[1]) \o U16_to_le_bytes(x[2])
U64_to_le_bytes(x) ==
    U16_to_le_bytes(x[1]) \o U16_to_le_bytes(x[2]) \o
    U16_to_le_bytes(x[3]) \o U16_to_le_bytes(x[4])

U16_from_le_bytes(b) == b[1] + 256 * b[2]
U32_from_le_bytes(b) == <<b[1] + 256 * b[2], b[3] + 256 * b[4]>>
U64_from_le_bytes(b) ==
    <<b[1] + 256 * b[2], b[3] + 256 * b[4], b[5] + 256 * b[6], b[7] + 256 * b[8]>>

\* the widening casts `as u64`
U8_as_u64(b) == <<b, 0, 0, 0>>
U16_as_u64(w) == <<w, 0, 0, 0>>
U32_as_u64(x) == <<x[1], x[2], 0, 0>>
\* the truncating casts of a u64
U64_as_u8(x) == x[1] % 256
U64_as_u16(x) == x[1]
U64_as_u32(x) == <<x[1], x[2]>>
\* usize is 64 bits wide: `as usize` of a u64 and `as u64` of a usize keep every limb
U64_as_usize(x) == x
\* a length of a buffer of the model (below 2^31) as a usize / u64
Usize(n) == <<n % 65536, n \div 65536, 0, 0>>
\* a usize that is at most a buffer's length, as an integer of the model
UsizeToNat(x) == x[1] + 65536 * x[2]

\* a <= b, a < b on u64 / usize
U64Le(a, b) ==
    \/ a[4] < b[4]
    \/ a[4] = b[4] /\ a[3] < b[3]
    \/ a[4] = b[4] /\ a[3] = b[3] /\ a[2] < b[2]
    \/ a[4] = b[4] /\ a[3] = b[3] /\ a[2] = b[2] /\ a[1] <= b[1]
U64Lt(a, b) == ~U64Le(b, a)

\* a + b on usize: the wrapped sum and whether it overflowed
UsizeAdd(a, b) ==
    LET s1 == a[1] + b[1]
        s2 == a[2] + b[2] + s1 \div 65536
        s3 == a[3] + b[3] + s2 \div 65536
        s4 == a[4] + b[4] + s3 \div 65536
    IN  [sum |-> <<s1 % 65536, s2 % 65536, s3 % 65536, s4 % 65536>>,
         overflow |-> s4 \div 65536 = 1]

\* &bytes[offset..]
SliceFrom(bytes, offset) == SubSeq(bytes, offset + 1, Len(bytes))
\* &bytes[from..to]
Slice(bytes, from, to) == SubSeq(bytes, from + 1, to)

-----------------------------------------------------------------------------
(* Results. *)

Ok(v, n) == [tag |-> "Ok", value |-> v, consumed |-> n]
Err(e) == [tag |-> "Err", error |-> e]
Panic(line) == [tag |-> "Panic", line |-> line]
InsufficientBytes == "InsufficientBytes"
InvalidFormat == "InvalidFormat"

None == [ty |-> "None"]
NoResult == [tag |-> "None"]

-----------------------------------------------------------------------------
(* CompactSize *)

CompactSize_new(v) == [value |-> v]

\* a slip of the first range to 0..=0xFD: 0xFD is written as one byte
CompactSize_to_bytes_wide_first_arm(self) ==
    IF U64Le(self.value, <<253, 0, 0, 0>>)
    THEN <<U64_as_u8(self.value)>>
    ELSE IF U64Le(self.value, <<65535, 0, 0, 0>>)
    THEN <<253>> \o U16_to_le_bytes(U64_as_u16(self.value))
    ELSE IF U64Le(self.value, <<65535, 65535, 0, 0>>)
    THEN <<254>> \o U32_to_le_bytes(U64_as_u32(self.value))
    ELSE <<255>> \o U64_to_le_bytes(self.value)

CompactSize_to_bytes(self) ==
    IF U64Le(self.value, <<252, 0, 0, 0>>)
    THEN <<U64_as_u8(self.value)>>
    ELSE IF U64Le(self.value, <<65535, 0, 0, 0>>)
    THEN <<253>> \o U16_to_le_bytes(U64_as_u16(self.value))
    ELSE IF U64Le(self.value, <<65535, 65535, 0, 0>>)
    THEN <<254>> \o U32_to_le_bytes(U64_as_u32(self.value))
    ELSE <<255>> \o U64_to_le_bytes(self.value)

\* a strict decoder: a 0xFD form that holds a value of the one-byte range is refused
CompactSize_from_bytes_strict(bytes) ==
    IF Len(bytes) = 0 THEN Err(InsufficientBytes)
    ELSE IF bytes[1] <= 252 THEN Ok(CompactSize_new(U8_as_u64(bytes[1])), 1)
    ELSE IF bytes[1] = 253
    THEN IF Len(bytes) < 3 THEN Err(InsufficientBytes)
         ELSE IF U16_from_le_bytes(Slice(bytes, 1, 3)) <= 252 THEN Err(InvalidFormat)
         ELSE Ok(CompactSize_new(U16_as_u64(U16_from_le_bytes(Slice(bytes, 1, 3)))), 3)
    ELSE IF bytes[1] = 254
    THEN IF Len(bytes) < 5 THEN Err(InsufficientBytes)
         ELSE Ok(CompactSize_new(U32_as_u64(U32_from_le_bytes(Slice(bytes, 1, 5)))), 5)
    ELSE IF Len(bytes) < 9 THEN Err(InsufficientBytes)
         ELSE Ok(CompactSize_new(U64_from_le_bytes(Slice(bytes, 1, 9))), 9)

CompactSize_from_bytes(bytes) ==
    IF Len(bytes) = 0 THEN Err(InsufficientBytes)
    ELSE IF bytes[1] <= 252 THEN Ok(CompactSize_new(U8_as_u64(bytes[1])), 1)
    ELSE IF bytes[1] = 253
    THEN IF Len(bytes) < 3 THEN Err(InsufficientBytes)
         ELSE Ok(CompactSize_new(U16_as_u64(U16_from_le_bytes(Slice(bytes, 1, 3)))), 3)
    ELSE IF bytes[1] = 254
    THEN IF Len(bytes) < 5 THEN Err(InsufficientBytes)
         ELSE Ok(CompactSize_new(U32_as_u64(U32_from_le_bytes(Slice(bytes, 1, 5)))), 5)
    ELSE IF Len(bytes) < 9 THEN Err(InsufficientBytes)
         ELSE Ok(CompactSize_new(U64_from_le_bytes(Slice(bytes, 1, 9))), 9)

-----------------------------------------------------------------------------
(* Txid and its hex (de)serialization *)

TxidLen == 32

Txid(array) == <<array>>

\* A string is a sequence of characters.
HexDigits == <<"0", "1", "2", "3", "4", "5", "6", "7", "8", "9", "a", "b", "c", "d", "e", "f">>
HexUpper == <<"0", "1", "2", "3", "4", "5", "6", "7", "8", "9", "A", "B", "C", "D", "E", "F">>

\* hex::encode: two lowercase digits a byte, high nibble first, in the order of the bytes
hex_encode(data) ==
    [i \in 1..(2 * Len(data)) |->
        IF i % 2 = 1 THEN HexDigits[(data[(i + 1) \div 2] \div 16) + 1]
                     ELSE HexDigits[(data[i \div 2] % 16) + 1]]

IsHexChar(c) == \E k \in 1..16 : HexDigits[k] = c \/ HexUpper[k] = c
HexVal(c) == (CHOOSE k \in 1..16 : HexDigits[k] = c \/ HexUpper[k] = c) - 1

\* hex::decode: an odd length or a character that is no hex digit is an error
hex_decode(s) ==
    IF Len(s) % 2 # 0 THEN [tag |-> "Err", error |-> "OddLength"]
    ELSE IF \E i \in 1..Len(s) : ~IsHexChar(s[i])
    THEN [tag |-> "Err", error |-> "InvalidHexCharacter"]
    ELSE [tag |-> "Ok",
          value |-> [i \in 1..(Len(s) \div 2) |->
                        16 * HexVal(s[2 * i - 1]) + HexVal(s[2 * i])]]

\* serde::de::Error::custom(msg): the deserializer's own error type, not BitcoinError
de_Error_custom(msg) == [tag |-> "Err", error |-> "serde::de::Error::custom", msg |-> msg]

Txid_serialize(self) == hex_encode(self[1])

\* without the check of the decoded length
Txid_deserialize_unchecked(hex_string) ==
    LET bytes == hex_decode(hex_string) IN
    IF bytes.tag = "Err" THEN de_Error_custom(bytes.error)
    ELSE [tag |-> "Ok", value |-> Txid(bytes.value)]

Txid_deserialize(hex_string) ==
    LET bytes == hex_decode(hex_string) IN
    IF bytes.tag = "Err" THEN de_Error_custom(bytes.error)
    ELSE IF Len(bytes.value) # TxidLen
    THEN de_Error_custom("Txid must be exactly 32 bytes")
    ELSE [tag |-> "Ok", value |-> Txid(bytes.value)]

-----------------------------------------------------------------------------
(* OutPoint *)

OutPointSize == 36

OutPoint_new(txid, vout) == [txid |-> Txid(txid), vout |-> vout]

OutPoint_to_bytes(self) == self.txid[1] \o U32_to_le_bytes(self.vout)

OutPoint_from_bytes(bytes) ==
    IF Len(bytes) < OutPointSize THEN Err(InsufficientBytes)
    ELSE LET txid == Slice(bytes, 0, 32)
             vout == U32_from_le_bytes(Slice(bytes, 32, 36))
         IN  Ok(OutPoint_new(txid, vout), 36)

-----------------------------------------------------------------------------
(* Script *)

Script_new(bytes) == [bytes |-> bytes]

Script_to_bytes(self) ==
    LET length == CompactSize_new(Usize(Len(self.bytes)))
    IN  CompactSize_to_bytes(length) \o self.bytes

\* A decoder that calls another one is written as a chain of operators, each
\* taking the results so far: what `let (x, consumed) = f(..)?;` binds.

\* `consumed + length.value as usize` overflows when the declared length is within
\* `consumed` of 2^64: a build with overflow checks panics there (line 160); one
\* without wraps, the length check passes and the slice consumed..total, whose
\* end is below its start, panics (line 166).
\* `<=` for `<` in the length check: a buffer that ends with the script is refused
Script_from_length_off_by_one(bytes, length, consumed) ==
    LET add == UsizeAdd(Usize(consumed), U64_as_usize(length.value))
        total_bytes_needed == add.sum
    IN  IF add.overflow /\ overflow_checks THEN Panic(160)
        ELSE IF U64Le(Usize(Len(bytes)), total_bytes_needed)
        THEN Err(InsufficientBytes)
        ELSE IF UsizeToNat(total_bytes_needed) < consumed THEN Panic(166)
        ELSE Ok(Script_new(Slice(bytes, consumed, UsizeToNat(total_bytes_needed))),
                UsizeToNat(total_bytes_needed))

\* the slice bytes[consumed..] for bytes[consumed..total_bytes_needed]: the script
\* takes every byte that follows
Script_from_length_greedy(bytes, length, consumed) ==
    LET add == UsizeAdd(Usize(consumed), U64_as_usize(length.value))
        total_bytes_needed == add.sum
    IN  IF add.overflow /\ overflow_checks THEN Panic(160)
        ELSE IF U64Lt(Usize(Len(bytes)), total_bytes_needed)
        THEN Err(InsufficientBytes)
        ELSE IF UsizeToNat(total_bytes_needed) < consumed THEN Panic(166)
        ELSE Ok(Script_new(SliceFrom(bytes, consumed)), Len(bytes))

Script_from_length(bytes, length, consumed) ==
    LET add == UsizeAdd(Usize(consumed), U64_as_usize(length.value))
        total_bytes_needed == add.sum
    IN  IF add.overflow /\ overflow_checks THEN Panic(160)
        ELSE IF U64Lt(Usize(Len(bytes)), total_bytes_needed)
        THEN Err(InsufficientBytes)
        ELSE IF UsizeToNat(total_bytes_needed) < consumed THEN Panic(166)
        ELSE Ok(Script_new(Slice(bytes, consumed, UsizeToNat(total_bytes_needed))),
                UsizeToNat(total_bytes_needed))

\* the `?` on CompactSize::from_bytes
Script_try_length(bytes, r) ==
    IF r.tag # "Ok" THEN r ELSE Script_from_length(bytes, r.value, r.consumed)

Script_from_bytes(bytes) == Script_try_length(bytes, CompactSize_from_bytes(bytes))

-----------------------------------------------------------------------------
(* TransactionInput *)

TransactionInput_new(previous_output, script_sig, sequence) ==
    [previous_output |-> previous_output, script_sig |-> script_sig, sequence |-> sequence]

\* the sequence written before the script
TransactionInput_to_bytes_swapped(self) ==
    OutPoint_to_bytes(self.previous_output) \o
    U32_to_le_bytes(self.sequence) \o
    Script_to_bytes(self.script_sig)

TransactionInput_to_bytes(self) ==
    OutPoint_to_bytes(self.previous_output) \o
    Script_to_bytes(self.script_sig) \o
    U32_to_le_bytes(self.sequence)

\* without the length check: indexing past the end aborts (line 218)
TransactionInput_sequence_unchecked(bytes, previous_output, script_sig, offset) ==
    IF Len(bytes) < offset + 4 THEN Panic(218)
    ELSE Ok(TransactionInput_new(previous_output, script_sig,
                                 U32_from_le_bytes(Slice(bytes, offset, offset + 4))),
            offset + 4)

\* the sequence number, after the outpoint and the script
TransactionInput_sequence(bytes, previous_output, script_sig, offset) ==
    IF Len(bytes) < offset + 4 THEN Err(InsufficientBytes)
    ELSE Ok(TransactionInput_new(previous_output, script_sig,
                                 U32_from_le_bytes(Slice(bytes, offset, offset + 4))),
            offset + 4)

\* the `?` on Script::from_bytes, and `offset += consumed`
TransactionInput_try_script(bytes, previous_output, offset, r) ==
    IF r.tag # "Ok" THEN r
    ELSE TransactionInput_sequence(bytes, previous_output, r.value, offset + r.consumed)

\* the `?` on OutPoint::from_bytes, `offset += consumed`, and the script from there
TransactionInput_try_outpoint(bytes, r) ==
    IF r.tag # "Ok" THEN r
    ELSE TransactionInput_try_script(bytes, r.value, 0 + r.consumed,
                                     Script_from_bytes(SliceFrom(bytes, 0 + r.consumed)))

TransactionInput_from_bytes(bytes) ==
    TransactionInput_try_outpoint(bytes, OutPoint_from_bytes(SliceFrom(bytes, 0)))

-----------------------------------------------------------------------------
(* BitcoinTransaction *)

BitcoinTransaction_new(version, inputs, lock_time) ==
    [version |-> version, inputs |-> inputs, lock_time |-> lock_time]

\* for input in &self.inputs { bytes.extend_from_slice(&input.to_bytes()) }
RECURSIVE ExtendInputs(_, _)
ExtendInputs(inputs, i) ==
    IF i > Len(inputs) THEN <<>>
    ELSE TransactionInput_to_bytes(inputs[i]) \o ExtendInputs(inputs, i + 1)

BitcoinTransaction_to_bytes(self) ==
    LET input_count == CompactSize_new(Usize(Len(self.inputs)))
    IN  U32_to_le_bytes(self.version) \o
        CompactSize_to_bytes(input_count) \o
        ExtendInputs(self.inputs, 1) \o
        U32_to_le_bytes(self.lock_time)

\* for _ in 0..input_count.value { ... }: i inputs are parsed, the next starts at
\* offset.  `attempts` counts the calls of TransactionInput::from_bytes.
RECURSIVE ParseInputs(_, _, _, _, _)
\* the `?` on TransactionInput::from_bytes, the push and `offset += consumed`
ParseInputs_try_input(bytes, input_count, i, offset, inputs, r) ==
    IF r.tag # "Ok" THEN [tag |-> r.tag, result |-> r, attempts |-> i + 1]
    ELSE ParseInputs(bytes, input_count, i + 1, offset + r.consumed, Append(inputs, r.value))

ParseInputs(bytes, input_count, i, offset, inputs) ==
    IF ~U64Lt(Usize(i), input_count.value)
    THEN [tag |-> "Ok", inputs |-> inputs, offset |-> offset, attempts |-> i]
    ELSE ParseInputs_try_input(bytes, input_count, i, offset, inputs,
                               TransactionInput_from_bytes(SliceFrom(bytes, offset)))

\* the lock time, after the loop
BitcoinTransaction_lock_time(bytes, version, loop) ==
    IF loop.tag # "Ok" THEN loop.result
    ELSE IF Len(bytes) < loop.offset + 4 THEN Err(InsufficientBytes)
    ELSE Ok(BitcoinTransaction_new(version, loop.inputs,
                U32_from_le_bytes(Slice(bytes, loop.offset, loop.offset + 4))),
            loop.offset + 4)

\* the `?` on CompactSize::from_bytes, `offset += consumed`, and the loop from there
BitcoinTransaction_try_count(bytes, version, offset, r) ==
    IF r.tag # "Ok" THEN r
    ELSE BitcoinTransaction_lock_time(bytes, version,
            ParseInputs(bytes, r.value, 0, offset + r.consumed, <<>>))

BitcoinTransaction_from_bytes(bytes) ==
    IF Len(bytes) < 4 THEN Err(InsufficientBytes)
    ELSE BitcoinTransaction_try_count(bytes, U32_from_le_bytes(Slice(bytes, 0, 4)), 4,
                                      CompactSize_from_bytes(SliceFrom(bytes, 4)))

\* The loop as BitcoinTransaction::from_bytes runs it on `bytes` (at least 4 bytes
\* and a count that decodes): its outcome and the number of input decodes attempted.
InputLoop(bytes) ==
    ParseInputs(bytes, CompactSize_from_bytes(SliceFrom(bytes, 4)).value, 0,
                4 + CompactSize_from_bytes(SliceFrom(bytes, 4)).consumed, <<>>)

-----------------------------------------------------------------------------
(* The values and buffers the operations are called with. *)

Fill(n) == [i \in 1..n |-> (7 * i) % 256]

\* every boundary of the four forms is among them: 0xFC, 0xFD, 0xFFFF, 0x10000,
\* 0xFFFFFFFF, 0x100000000, 2^64 - 1
LowLimbs == {0, 1, 5, 252, 253, 258, 65535}
HighLimbs == {0, 1, 65535}
U64Samples == {<<a, b, c, d>> : a \in LowLimbs, b \in HighLimbs,
                                c \in HighLimbs, d \in HighLimbs}
\* 0, 1, 0x01020304, 0xFFFFFFFF
U32Samples == {<<0, 0>>, <<1, 0>>, <<772, 258>>, <<65535, 65535>>}
TxidSamples == {[i \in 1..TxidLen |-> 0], [i \in 1..TxidLen |-> i - 1],
                [i \in 1..TxidLen |-> 255 - 3 * i]}
ScriptSamples == {<<>>, <<81>>, <<0, 253>>, Fill(252), Fill(253)}
InputScripts == {<<>>, <<0, 253>>, Fill(253)}

CompactSizeValues == {CompactSize_new(v) : v \in U64Samples}
OutPointValues == {OutPoint_new(t, v) : t \in TxidSamples, v \in U32Samples}
ScriptValues == {Script_new(b) : b \in ScriptSamples}
TransactionInputValues ==
    {TransactionInput_new(o, s, q) :
        o \in OutPointValues, s \in {Script_new(b) : b \in InputScripts},
        q \in {<<0, 0>>, <<65534, 65535>>}}

\* the inputs transactions are built from
Input1 == TransactionInput_new(OutPoint_new([i \in 1..TxidLen |-> 0], <<65535, 65535>>),
                               Script_new(<<>>), <<65535, 65535>>)
Input2 == TransactionInput_new(OutPoint_new([i \in 1..TxidLen |-> i - 1], <<1, 0>>),
                               Script_new(<<0, 253>>), <<65534, 65535>>)
Input3 == TransactionInput_new(OutPoint_new([i \in 1..TxidLen |-> 255 - 3 * i], <<772, 258>>),
                               Script_new(Fill(253)), <<0, 0>>)
InputLists == UNION {[1..n -> {Input1, Input2, Input3}] : n \in 0..MaxInputs}
BitcoinTransactionValues ==
    {BitcoinTransaction_new(v, ins, l) :
        v \in {<<1, 0>>, <<772, 258>>}, ins \in InputLists, l \in {<<0, 0>>, <<65534, 65535>>}}

\* bytes that follow a complete encoding
Tails == UNION {[1..n -> {0, 255}] : n \in 1..MaxTail}

\* every prefix of an encoding (the encoding itself too), and the encoding with a tail
Prefixes(w) == {SubSeq(w, 1, k) : k \in 0..Len(w)}
Derived(w) == Prefixes(w) \cup {w \o t : t \in Tails}

\* CompactSize headers no encoder writes: wider than needed, or declaring what no
\* buffer holds (2^32, 2^63, 2^64 - 10, 2^64 - 9, 2^64 - 1)
RawHeaders ==
    {<<253>> \o U16_to_le_bytes(w) : w \in {0, 5, 10, 252, 253, 65535}} \cup
    {<<254>> \o U32_to_le_bytes(x) : x \in {<<5, 0>>, <<65535, 0>>, <<0, 1>>, <<65535, 65535>>}} \cup
    {<<255>> \o U64_to_le_bytes(x) :
        x \in {<<5, 0, 0, 0>>, <<10, 0, 0, 0>>, <<65535, 65535, 0, 0>>, <<0, 0, 1, 0>>,
               <<0, 0, 0, 32768>>, <<65526, 65535, 65535, 65535>>,
               <<65527, 65535, 65535, 65535>>, <<65535, 65535, 65535, 65535>>}}

CraftedCompactSize == UNION {Derived(h) : h \in RawHeaders}
CraftedOutPoint == {Fill(n) : n \in {0, 35, 36, 37}}
CraftedScript ==
    {h \o Fill(n) : h \in RawHeaders \cup {<<0>>, <<5>>, <<10>>, <<252>>},
                    n \in {0, 4, 5, 9, 10, 11}}
CraftedTransactionInput ==
    {OutPoint_to_bytes(Input2.previous_output) \o s \o q :
        s \in CraftedScript, q \in {<<>>, <<1, 2, 3>>, <<1, 2, 3, 4>>}}

\* a transaction buffer: a version, a count (written small, or any raw header), some
\* complete inputs, and what follows them
RECURSIVE Repeat(_, _)
Repeat(w, n) == IF n = 0 THEN <<>> ELSE w \o Repeat(w, n - 1)
CountHeaders ==
    {CompactSize_to_bytes(CompactSize_new(Usize(n))) : n \in 0..MaxCount} \cup RawHeaders
Remainders ==
    {<<>>, <<0, 0, 0, 0>>,
     SubSeq(TransactionInput_to_bytes(Input1), 1, 40),
     OutPoint_to_bytes(Input1.previous_output) \o <<10, 1, 2, 3>>,
     OutPoint_to_bytes(Input1.previous_output) \o
        <<255, 255, 255, 255, 255, 255, 255, 255, 255>> \o <<0, 0, 0, 0>>}
CraftedBitcoinTransaction ==
    {U32_to_le_bytes(<<1, 0>>) \o c \o Repeat(TransactionInput_to_bytes(Input2), k) \o r :
        c \in CountHeaders, k \in 0..MaxCount, r \in Remainders}

Upper(s) == [i \in 1..Len(s) |->
                IF \E k \in 1..16 : HexDigits[k] = s[i]
                THEN HexUpper[CHOOSE k \in 1..16 : HexDigits[k] = s[i]] ELSE s[i]]
\* strings made from a serialized Txid: cut, extended, upper case, with a letter
\* that is no hex digit
DerivedStrings(s) ==
    Prefixes(s) \cup {s \o <<"0">>, s \o <<"0", "0">>, Upper(s)} \cup
    {[s EXCEPT ![i] = "g"] : i \in {1, Len(s)}}
CraftedStrings == {<<>>, <<"z", "z">>, <<"a">>, <<"A", "b">>}

-----------------------------------------------------------------------------
(* The state machine: one action per operation of the library.  The        *)
(* library keeps no state between calls, so a behaviour is one use of it:  *)
(* an encoder called with a value and then the decoder of its type called  *)
(* with a buffer made from that encoding, or a decoder called with a       *)
(* crafted buffer.                                                         *)

Init ==
    /\ overflow_checks \in BOOLEAN
    /\ last = "init"
    /\ value = None
    /\ wire = <<>>
    /\ input = <<>>
    /\ result = NoResult

CompactSizeToBytes ==
    /\ last = "init"
    /\ \E self \in CompactSizeValues :
        /\ value' = [ty |-> "CompactSize", v |-> self]
        /\ wire' = CompactSize_to_bytes(self)
    /\ last' = "CompactSize::to_bytes"
    /\ input' = <<>>
    /\ result' = NoResult
    /\ UNCHANGED overflow_checks

CompactSizeFromBytes ==
    \/ /\ last = "CompactSize::to_bytes"
       /\ \E bytes \in Derived(wire) :
            /\ input' = bytes
            /\ result' = CompactSize_from_bytes(bytes)
       /\ last' = "CompactSize::from_bytes"
       /\ UNCHANGED <<overflow_checks, value, wire>>
    \/ /\ last = "init"
       /\ \E bytes \in CraftedCompactSize :
            /\ input' = bytes
            /\ result' = CompactSize_from_bytes(bytes)
       /\ last' = "CompactSize::from_bytes"
       /\ UNCHANGED <<overflow_checks, value, wire>>

OutPointToBytes ==
    /\ last = "init"
    /\ \E self \in OutPointValues :
        /\ value' = [ty |-> "OutPoint", v |-> self]
        /\ wire' = OutPoint_to_bytes(self)
    /\ last' = "OutPoint::to_bytes"
    /\ input' = <<>>
    /\ result' = NoResult
    /\ UNCHANGED overflow_checks

OutPointFromBytes ==
    \/ /\ last = "OutPoint::to_bytes"
       /\ \E bytes \in Derived(wire) :
            /\ input' = bytes
            /\ result' = OutPoint_from_bytes(bytes)
       /\ last' = "OutPoint::from_bytes"
       /\ UNCHANGED <<overflow_checks, value, wire>>
    \/ /\ last = "init"
       /\ \E bytes \in CraftedOutPoint :
            /\ input' = bytes
            /\ result' = OutPoint_from_bytes(bytes)
       /\ last' = "OutPoint::from_bytes"
       /\ UNCHANGED <<overflow_checks, value, wire>>

ScriptToBytes ==
    /\ last = "init"
    /\ \E self \in ScriptValues :
        /\ value' = [ty |-> "Script", v |-> self]
        /\ wire' = Script_to_bytes(self)
    /\ last' = "Script::to_bytes"
    /\ input' = <<>>
    /\ result' = NoResult
    /\ UNCHANGED overflow_checks

ScriptFromBytes ==
    \/ /\ last = "Script::to_bytes"
       /\ \E bytes \in Derived(wire) :
            /\ input' = bytes
            /\ result' = Script_from_bytes(bytes)
       /\ last' = "Script::from_bytes"
       /\ UNCHANGED <<overflow_checks, value, wire>>
    \/ /\ last = "init"
       /\ \E bytes \in CraftedScript :
            /\ input' = bytes
            /\ result' = Script_from_bytes(bytes)
       /\ last' = "Script::from_bytes"
       /\ UNCHANGED <<overflow_checks, value, wire>>

TransactionInputToBytes ==
    /\ last = "init"
    /\ \E self \in TransactionInputValues :
        /\ value' = [ty |-> "TransactionInput", v |-> self]
        /\ wire' = TransactionInput_to_bytes(self)
    /\ last' = "TransactionInput::to_bytes"
    /\ input' = <<>>
    /\ result' = NoResult
    /\ UNCHANGED overflow_checks

TransactionInputFromBytes ==
    \/ /\ last = "TransactionInput::to_bytes"
       /\ \E bytes \in Derived(wire) :
            /\ input' = bytes
            /\ result' = TransactionInput_from_bytes(bytes)
       /\ last' = "TransactionInput::from_bytes"
       /\ UNCHANGED <<overflow_checks, value, wire>>
    \/ /\ last = "init"
       /\ \E bytes \in CraftedTransactionInput :
            /\ input' = bytes
            /\ result' = TransactionInput_from_bytes(bytes)
       /\ last' = "TransactionInput::from_bytes"
       /\ UNCHANGED <<overflow_checks, value, wire>>

BitcoinTransactionToBytes ==
    /\ last = "init"
    /\ \E self \in BitcoinTransactionValues :
        /\ value' = [ty |-> "BitcoinTransaction", v |-> self]
        /\ wire' = BitcoinTransaction_to_bytes(self)
    /\ last' = "BitcoinTransaction::to_bytes"
    /\ input' = <<>>
    /\ result' = NoResult
    /\ UNCHANGED overflow_checks

BitcoinTransactionFromBytes ==
    \/ /\ last = "BitcoinTransaction::to_bytes"
       /\ \E bytes \in Derived(wire) :
            /\ input' = bytes
            /\ result' = BitcoinTransaction_from_bytes(bytes)
       /\ last' = "BitcoinTransaction::from_bytes"
       /\ UNCHANGED <<overflow_checks, value, wire>>
    \/ /\ last = "init"
       /\ \E bytes \in CraftedBitcoinTransaction :
            /\ input' = bytes
            /\ result' = BitcoinTransaction_from_bytes(bytes)
       /\ last' = "BitcoinTransaction::from_bytes"
       /\ UNCHANGED <<overflow_checks, value, wire>>

TxidSerialize ==
    /\ last = "init"
    /\ \E array \in TxidSamples :
        /\ value' = [ty |-> "Txid", v |-> Txid(array)]
        /\ wire' = Txid_serialize(Txid(array))
    /\ last' = "Txid::serialize"
    /\ input' = <<>>
    /\ result' = NoResult
    /\ UNCHANGED overflow_checks

TxidDeserialize ==
    \/ /\ last = "Txid::serialize"
       /\ \E hex_string \in DerivedStrings(wire) :
            /\ input' = hex_string
            /\ result' = Txid_deserialize(hex_string)
       /\ last' = "Txid::deserialize"
       /\ UNCHANGED <<overflow_checks, value, wire>>
    \/ /\ last = "init"
       /\ \E hex_string \in CraftedStrings :
            /\ input' = hex_string
            /\ result' = Txid_deserialize(hex_string)
       /\ last' = "Txid::deserialize"
       /\ UNCHANGED <<overflow_checks, value, wire>>

Next ==
    \/ CompactSizeToBytes
    \/ CompactSizeFromBytes
    \/ OutPointToBytes
    \/ OutPointFromBytes
    \/ ScriptToBytes
    \/ ScriptFromBytes
    \/ TransactionInputToBytes
    \/ TransactionInputFromBytes
    \/ BitcoinTransactionToBytes
    \/ BitcoinTransactionFromBytes
    \/ TxidSerialize
    \/ TxidDeserialize

Spec == Init /\ [][Next]_vars

-----------------------------------------------------------------------------
(* Properties. *)

FromBytesOps == {"CompactSize::from_bytes", "OutPoint::from_bytes", "Script::from_bytes",
                 "TransactionInput::from_bytes", "BitcoinTransaction::from_bytes"}

\* the decoder an operation names, applied to a buffer
FromBytes(op, b) ==
    CASE op = "CompactSize::from_bytes" -> CompactSize_from_bytes(b)
      [] op = "OutPoint::from_bytes" -> OutPoint_from_bytes(b)
      [] op = "Script::from_bytes" -> Script_from_bytes(b)
      [] op = "TransactionInput::from_bytes" -> TransactionInput_from_bytes(b)
      [] op = "BitcoinTransaction::from_bytes" -> BitcoinTransaction_from_bytes(b)

\* the decoder was given a buffer made from the encoding of a value
OwnBuffer == last \in FromBytesOps /\ value.ty # "None"

\* C1: decoding exactly what an encoder of the five types returned succeeds with the
\* value that was encoded and a consumed count equal to the full encoded length.
C1_RoundTrip ==
    (OwnBuffer /\ input = wire) => result = Ok(value.v, Len(wire))

C1_Witness ==
    /\ last = "BitcoinTransaction::from_bytes"
    /\ value.ty = "BitcoinTransaction"
    /\ input = wire
    /\ Len(value.v.inputs) = 2
    /\ Len(value.v.inputs[2].script_sig.bytes) = 253
    /\ result.tag = "Ok"
    /\ result.consumed = 346

\* a u64 of the model against the ranges of the four forms, limb by limb
InRange1(v) == v[4] = 0 /\ v[3] = 0 /\ v[2] = 0 /\ v[1] <= 252
InRange3(v) == v[4] = 0 /\ v[3] = 0 /\ v[2] = 0 /\ v[1] >= 253
InRange5(v) == v[4] = 0 /\ v[3] = 0 /\ v[2] >= 1
InRange9(v) == v[4] # 0 \/ v[3] # 0
Lo(w) == w % 256
Hi(w) == w \div 256

\* C2: CompactSize::to_bytes writes 1 byte (the value) up to 0xFC, 0xFD and 2
\* little-endian bytes up to 0xFFFF, 0xFE and 4 up to 0xFFFFFFFF, 0xFF and 8 above:
\* never a wider form than the narrowest that holds the value.
C2_CanonicalMinimal ==
    last = "CompactSize::to_bytes" =>
        LET v == value.v.value IN
        /\ InRange1(v) => wire = <<v[1]>>
        /\ InRange3(v) => wire = <<253, Lo(v[1]), Hi(v[1])>>
        /\ InRange5(v) => wire = <<254, Lo(v[1]), Hi(v[1]), Lo(v[2]), Hi(v[2])>>
        /\ InRange9(v) => wire = <<255, Lo(v[1]), Hi(v[1]), Lo(v[2]), Hi(v[2]),
                                        Lo(v[3]), Hi(v[3]), Lo(v[4]), Hi(v[4])>>
        /\ Len(wire) \in {1, 3, 5, 9}
        /\ Len(wire) > 1 => ~InRange1(v)
        /\ Len(wire) > 3 => ~InRange3(v)
        /\ Len(wire) > 5 => ~InRange5(v)

C2_Witness ==
    /\ last = "CompactSize::to_bytes"
    /\ value.v.value = <<0, 0, 1, 0>>
    /\ wire = <<255, 0, 0, 0, 0, 1, 0, 0, 0>>

\* C3: CompactSize::from_bytes takes the little-endian value after a 0xFD / 0xFE /
\* 0xFF discriminator whenever the 2 / 4 / 8 bytes are there, consuming 1 + width,
\* also when the value fits a narrower form; a first byte up to 0xFC is the value.
C3_Lenient ==
    (last = "CompactSize::from_bytes" /\ Len(input) >= 1) =>
        /\ input[1] <= 252 => result = Ok([value |-> <<input[1], 0, 0, 0>>], 1)
        /\ (input[1] = 253 /\ Len(input) >= 3) =>
              result = Ok([value |-> <<input[2] + 256 * input[3], 0, 0, 0>>], 3)
        /\ (input[1] = 254 /\ Len(input) >= 5) =>
              result = Ok([value |-> <<input[2] + 256 * input[3],
                                       input[4] + 256 * input[5], 0, 0>>], 5)
        /\ (input[1] = 255 /\ Len(input) >= 9) =>
              result = Ok([value |-> <<input[2] + 256 * input[3],
                                       input[4] + 256 * input[5],
                                       input[6] + 256 * input[7],
                                       input[8] + 256 * input[9]>>], 9)

C3_Witness ==
    /\ last = "CompactSize::from_bytes"
    /\ input = <<253, 5, 0>>
    /\ result = Ok([value |-> <<5, 0, 0, 0>>], 3)

\* C4: decoding a strict prefix of what an encoder of the five types returned (the
\* empty buffer too) returns Err(InsufficientBytes).
C4_Truncation ==
    (OwnBuffer /\ Len(input) < Len(wire) /\ input = SubSeq(wire, 1, Len(input))) =>
        result = Err(InsufficientBytes)

C4_Witness ==
    /\ last = "BitcoinTransaction::from_bytes"
    /\ value.ty = "BitcoinTransaction"
    /\ Len(value.v.inputs) = 2
    /\ Len(input) = Len(wire) - 1
    /\ input = SubSeq(wire, 1, Len(input))
    /\ result = Err(InsufficientBytes)

\* a declared length that no buffer of the model holds (2^30 or more)
Huge(v) == v[4] # 0 \/ v[3] # 0 \/ v[2] >= 16384
\* header + declared length exceeds the available bytes, as integers
\* a length below 2^30 as an integer
Small(v) == v[1] + 65536 * v[2]
Exceeds(headerSize, declared, available) ==
    Huge(declared) \/ headerSize + Small(declared) > available

\* C5: Script::from_bytes, given a header that decodes to (declaredLength,
\* headerSize), returns Err(InsufficientBytes) when headerSize + declaredLength
\* (as integers) exceeds the buffer's length, and otherwise the next declaredLength
\* bytes with consumed = headerSize + declaredLength.
C5_ScriptLength ==
    (last = "Script::from_bytes" /\ CompactSize_from_bytes(input).tag = "Ok") =>
        LET h == CompactSize_from_bytes(input).consumed
            declared == CompactSize_from_bytes(input).value.value
        IN  IF Exceeds(h, declared, Len(input))
            THEN result = Err(InsufficientBytes)
            ELSE result = Ok([bytes |-> SubSeq(input, h + 1, h + Small(declared))],
                             h + Small(declared))

\* the inputs that are complete in `bytes` from `offset` on, counted up to `limit`:
\* an outpoint, a script header whose declared length the buffer holds, the script
\* and 4 bytes of sequence
RECURSIVE CompleteInputs(_, _, _)
CompleteInputs(bytes, offset, limit) ==
    LET hdr == CompactSize_from_bytes(SliceFrom(bytes, offset + 36)) IN
    IF limit = 0 \/ Len(bytes) < offset + 36 \/ hdr.tag # "Ok" THEN 0
    ELSE IF Exceeds(offset + 36 + hdr.consumed + 4, hdr.value.value, Len(bytes)) THEN 0
    ELSE 1 + CompleteInputs(bytes,
                            offset + 36 + hdr.consumed + Small(hdr.value.value) + 4,
                            limit - 1)

\* C6: BitcoinTransaction::from_bytes decodes exactly the declared count of inputs
\* on success; when the buffer holds fewer complete inputs than the count says, it
\* returns Err(InsufficientBytes) having attempted at most one input decode more
\* than there are complete inputs.
C6_InputCount ==
    (/\ last = "BitcoinTransaction::from_bytes"
     /\ Len(input) >= 4
     /\ CompactSize_from_bytes(SliceFrom(input, 4)).tag = "Ok") =>
        LET c == CompactSize_from_bytes(SliceFrom(input, 4))
            cap == IF Huge(c.value.value) THEN Len(input) ELSE Small(c.value.value)
            present == CompleteInputs(input, 4 + c.consumed, cap)
        IN  /\ result.tag = "Ok" => Usize(Len(result.value.inputs)) = c.value.value
            /\ (Huge(c.value.value) \/ present < Small(c.value.value)) =>
                  /\ result = Err(InsufficientBytes)
                  /\ InputLoop(input).attempts <= present + 1

\* C7: every binary decoder returns, for every buffer, Ok with consumed at most the
\* buffer's length or Err(InsufficientBytes): never InvalidFormat, never an abort.
C7_Totality ==
    last \in FromBytesOps =>
        \/ result.tag = "Ok" /\ result.consumed <= Len(input)
        \/ result = Err(InsufficientBytes)

LE32(x) == <<Lo(x[1]), Hi(x[1]), Lo(x[2]), Hi(x[2])>>
CountBytes(n) == CompactSize_to_bytes(CompactSize_new(Usize(n)))
\* 36-byte outpoint, length-prefixed script, sequence
InputLayout(in) ==
    in.previous_output.txid[1] \o LE32(in.previous_output.vout) \o
    CountBytes(Len(in.script_sig.bytes)) \o in.script_sig.bytes \o LE32(in.sequence)
InputSize(in) ==
    36 + (Len(CountBytes(Len(in.script_sig.bytes))) + Len(in.script_sig.bytes)) + 4
RECURSIVE InputsLayout(_, _)
InputsLayout(inputs, i) ==
    IF i > Len(inputs) THEN <<>> ELSE InputLayout(inputs[i]) \o InputsLayout(inputs, i + 1)
RECURSIVE InputsSize(_, _)
InputsSize(inputs, i) ==
    IF i > Len(inputs) THEN 0 ELSE InputSize(inputs[i]) + InputsSize(inputs, i + 1)

\* C8: BitcoinTransaction::to_bytes is the version (4 bytes, little-endian), the
\* CompactSize of the number of inputs, each input in list order (32 txid bytes, 4
\* of vout, the length-prefixed script, 4 of sequence) and the lock time (4 bytes);
\* version 1, no inputs, lock time 0 is 01 00 00 00 00 00 00 00 00, and an input
\* with an empty script is 41 bytes long.
C8_Layout ==
    /\ last = "BitcoinTransaction::to_bytes" =>
        LET tx == value.v
            n == Len(CountBytes(Len(tx.inputs)))
        IN  /\ wire = LE32(tx.version) \o CountBytes(Len(tx.inputs)) \o
                      InputsLayout(tx.inputs, 1) \o LE32(tx.lock_time)
            /\ Len(wire) = 4 + n + InputsSize(tx.inputs, 1) + 4
            /\ CompactSize_from_bytes(SubSeq(wire, 5, 4 + n)) =
                  Ok([value |-> <<Len(tx.inputs), 0, 0, 0>>], n)
            /\ (tx.version = <<1, 0>> /\ tx.inputs = <<>> /\ tx.lock_time = <<0, 0>>) =>
                  wire = <<1, 0, 0, 0, 0, 0, 0, 0, 0>>
    /\ last = "TransactionInput::to_bytes" =>
        /\ wire = InputLayout(value.v)
        /\ Len(wire) = InputSize(value.v)
        /\ value.v.script_sig.bytes = <<>> => Len(wire) = 41

C8_Witness ==
    /\ last = "BitcoinTransaction::to_bytes"
    /\ Len(value.v.inputs) = 2
    /\ value.v.inputs[1].script_sig.bytes = <<>>
    /\ Len(value.v.inputs[2].script_sig.bytes) = 253
    /\ Len(wire) = 346
    /\ SubSeq(wire, 1, 5) = <<4, 3, 2, 1, 2>>

\* a string that hex-decodes to exactly 32 bytes
DecodesTo32(s) == Len(s) = 64 /\ \A i \in 1..Len(s) : IsHexChar(s[i])

RECURSIVE InputsChain(_, _, _, _)
InputsChain(bytes, inputs, i, offset) ==
    IF i > Len(inputs) THEN offset
    ELSE LET r == TransactionInput_from_bytes(SliceFrom(bytes, offset)) IN
         IF r.tag = "Ok" /\ r.value = inputs[i]
         THEN InputsChain(bytes, inputs, i + 1, offset + r.consumed)
         ELSE -1

\* C10: a decoder that succeeds with (v, n) consumed at most the buffer, and returns
\* the same (v, n) for the first n bytes alone or followed by any other bytes; a
\* composed decoder decodes each component at the offset where the one before ended.
C10_NoLookAhead ==
    (last \in FromBytesOps /\ result.tag = "Ok") =>
        /\ result.consumed <= Len(input)
        /\ \A t \in Tails \cup {<<>>} :
              FromBytes(last, SubSeq(input, 1, result.consumed) \o t) = result
        /\ last = "Script::from_bytes" =>
              LET c == CompactSize_from_bytes(input) IN
              /\ c.tag = "Ok"
              /\ result.value.bytes = SubSeq(input, c.consumed + 1, result.consumed)
        /\ last = "TransactionInput::from_bytes" =>
              LET o == OutPoint_from_bytes(input)
                  s == Script_from_bytes(SliceFrom(input, o.consumed))
              IN  /\ o = Ok(result.value.previous_output, 36)
                  /\ s.tag = "Ok" /\ s.value = result.value.script_sig
                  /\ result.value.sequence =
                        U32_from_le_bytes(SubSeq(input, o.consumed + s.consumed + 1,
                                                 o.consumed + s.consumed + 4))
                  /\ result.consumed = o.consumed + s.consumed + 4
        /\ last = "BitcoinTransaction::from_bytes" =>
              LET c == CompactSize_from_bytes(SliceFrom(input, 4))
                  after == InputsChain(input, result.value.inputs, 1, 4 + c.consumed)
              IN  /\ c.tag = "Ok"
                  /\ after >= 0
                  /\ result.value.lock_time =
                        U32_from_le_bytes(SubSeq(input, after + 1, after + 4))
                  /\ result.consumed = after + 4

C10_Witness ==
    /\ last = "BitcoinTransaction::from_bytes"
    /\ result.tag = "Ok"
    /\ Len(result.value.inputs) = 2
    /\ Len(input) = result.consumed + 2
    /\ input[Len(input)] = 255

=============================================================================
